---- MODULE Spec2Model ----
(***************************************************************************)
(* GBM path simulation and Black-Scholes call pricing of leofischer21/bs:  *)
(*   src/simulation.py   simulate_stock_data, black_scholes_call_price and *)
(*                       the module-level pricing scenario                 *)
(*   src/simulation2.py  simulate_gbm, black_scholes_call and main         *)
(*                                                                         *)
(* Floating point numbers are fixed-point integers with Scale units per    *)
(* 1.0; every arithmetic operation rounds its result to the nearest unit,  *)
(* as every float64 operation rounds to the nearest double.  The IEEE      *)
(* special values (+Inf, -Inf, NaN) that numpy produces instead of raising *)
(* are kept as records next to the finite values.                          *)
(***************************************************************************)
EXTENDS Integers, Sequences, FiniteSets, TLC

\* ------------------------------------------------------------------------
\* Bounds of the model
\* ------------------------------------------------------------------------
\* fixed-point units per 1.0
Scale == 1000
\* terms of the Taylor series of exp
ExpOrder == 8
\* explicit seeds are 0..MaxSeed
MaxSeed == 2
\* states the OS entropy source can seed the generator with
NumEntropy == 2
\* steps of simulate_gbm range over -1..MaxSteps
MaxSteps == 2
\* trading_years of simulate_stock_data range over -1..MaxYears
MaxYears == 1
\* trading_days of simulate_stock_data range over 0..MaxDays
MaxDays == 2
\* draws simulate_gbm takes from the generator since it was last seeded: at most MaxPos
MaxPos == 5
\* the same for the UI runs of main, which take at least StepsMin draws each
MaxUiPos == 170

\* ------------------------------------------------------------------------
\* Fixed-point arithmetic (float64 arithmetic of Python and numpy)
\* ------------------------------------------------------------------------
Max(a, b) == IF a >= b THEN a ELSE b

Abs(a) == IF a >= 0 THEN a ELSE -a

\* a / b rounded to the nearest integer, b > 0
RoundDiv(a, b) == (2 * a + b) \div (2 * b)

\* the product and the quotient of two fixed-point numbers
Mul(a, b) == RoundDiv(a * b, Scale)

Div(a, b) == IF b > 0 THEN RoundDiv(a * Scale, b) ELSE RoundDiv((-a) * Scale, -b)

RECURSIVE Pow2(_)
Pow2(k) == IF k <= 0 THEN 1 ELSE 2 * Pow2(k - 1)

RECURSIVE ISqrtIn(_, _, _)
ISqrtIn(n, lo, hi) ==
    IF lo >= hi THEN lo
    ELSE LET mid == (lo + hi + 1) \div 2
         IN  IF mid * mid <= n THEN ISqrtIn(n, mid, hi) ELSE ISqrtIn(n, lo, mid - 1)

\* np.sqrt of a finite x >= 0
SqrtF(x) ==
    LET n == x * Scale
        r == ISqrtIn(n, 0, Max(x, Scale))
    IN  IF (r + 1) * (r + 1) - n < n - r * r THEN r + 1 ELSE r

Ln2 == RoundDiv(693147 * Scale, 1000000)

RECURSIVE ExpTerms(_, _, _)
ExpTerms(r, term, k) ==
    IF k > ExpOrder \/ term = 0 THEN 0
    ELSE term + ExpTerms(r, RoundDiv(term * r, Scale * k), k + 1)

\* np.exp of a finite y: 2^k * exp(r) with y = k*ln 2 + r, 0 <= r < ln 2; a result
\* below half a unit underflows to 0
ExpF(y) ==
    LET k == y \div Ln2
        r == y - k * Ln2
        e == ExpTerms(r, Scale, 1)
    IN  IF k >= 0 THEN e * Pow2(k)
        ELSE IF -k >= 30 THEN 0
        ELSE RoundDiv(e, Pow2(-k))

\* ln of m, Scale <= m < 2*Scale: 2*atanh((m-1)/(m+1))
LnSeries(m) ==
    LET z  == Div(m - Scale, m + Scale)
        z2 == Mul(z, z)
        z3 == Mul(z, z2)
        z5 == Mul(z3, z2)
        z7 == Mul(z5, z2)
    IN  2 * (z + RoundDiv(z3, 3) + RoundDiv(z5, 5) + RoundDiv(z7, 7))

RECURSIVE LnNorm(_, _)
LnNorm(x, k) ==
    IF x >= 2 * Scale THEN LnNorm(RoundDiv(x, 2), k + 1)
    ELSE IF x < Scale THEN LnNorm(2 * x, k - 1)
    ELSE k * Ln2 + LnSeries(x)

\* np.log of a finite x > 0
LnF(x) == LnNorm(x, 0)

\* scipy.stats.norm.cdf of a finite x (Abramowitz-Stegun 26.2.16)
CdfF(x) ==
    LET a   == Abs(x)
        t   == Div(Scale, Scale + Mul(RoundDiv(33267 * Scale, 100000), a))
        pdf == Mul(RoundDiv(39894 * Scale, 100000), ExpF(-RoundDiv(Mul(a, a), 2)))
        pol == Mul(RoundDiv(43618 * Scale, 100000), t)
               - Mul(RoundDiv(12017 * Scale, 100000), Mul(t, t))
               + Mul(RoundDiv(93730 * Scale, 100000), Mul(t, Mul(t, t)))
        up  == IF a >= 8 * Scale THEN Scale ELSE Scale - Mul(pdf, pol)
    IN  IF x >= 0 THEN up ELSE Scale - up

\* ------------------------------------------------------------------------
\* IEEE special values: numpy warns and returns them, it does not raise
\* ------------------------------------------------------------------------
Fin(v) == [t |-> "fin", v |-> v]

PInf == [t |-> "inf", v |-> 1]

NInf == [t |-> "inf", v |-> -1]

NaN == [t |-> "nan", v |-> 0]

Sign(v) == IF v > 0 THEN 1 ELSE IF v < 0 THEN -1 ELSE 0

SignedInf(s) == IF s > 0 THEN PInf ELSE NInf

FNeg(a) == IF a.t = "nan" THEN NaN ELSE [t |-> a.t, v |-> -a.v]

FAdd(a, b) ==
    IF a.t = "nan" \/ b.t = "nan" THEN NaN
    ELSE IF a.t = "inf" /\ b.t = "inf" THEN (IF a.v = b.v THEN a ELSE NaN)
    ELSE IF a.t = "inf" THEN a
    ELSE IF b.t = "inf" THEN b
    ELSE Fin(a.v + b.v)

FSub(a, b) == FAdd(a, FNeg(b))

FMul(a, b) ==
    IF a.t = "nan" \/ b.t = "nan" THEN NaN
    ELSE IF a.t = "inf" \/ b.t = "inf"
         THEN (IF a.v = 0 \/ b.v = 0 THEN NaN ELSE SignedInf(Sign(a.v) * Sign(b.v)))
    ELSE Fin(Mul(a.v, b.v))

\* float64 division of numpy scalars: x/0 is +-Inf, 0/0 is NaN, nothing is raised
FDiv(a, b) ==
    IF a.t = "nan" \/ b.t = "nan" THEN NaN
    ELSE IF a.t = "inf" /\ b.t = "inf" THEN NaN
    ELSE IF a.t = "inf" THEN SignedInf(a.v * (IF b.v < 0 THEN -1 ELSE 1))
    ELSE IF b.t = "inf" THEN Fin(0)
    ELSE IF b.v = 0 THEN (IF a.v = 0 THEN NaN ELSE SignedInf(Sign(a.v)))
    ELSE Fin(Div(a.v, b.v))

FLog(a) ==
    IF a.t = "nan" THEN NaN
    ELSE IF a.t = "inf" THEN (IF a.v > 0 THEN PInf ELSE NaN)
    ELSE IF a.v > 0 THEN Fin(LnF(a.v))
    ELSE IF a.v = 0 THEN NInf
    ELSE NaN

FExp(a) ==
    IF a.t = "nan" THEN NaN
    ELSE IF a.t = "inf" THEN (IF a.v > 0 THEN PInf ELSE Fin(0))
    ELSE Fin(ExpF(a.v))

FSqrt(a) ==
    IF a.t = "nan" THEN NaN
    ELSE IF a.t = "inf" THEN (IF a.v > 0 THEN PInf ELSE NaN)
    ELSE IF a.v >= 0 THEN Fin(SqrtF(a.v))
    ELSE NaN

FCdf(a) ==
    IF a.t = "nan" THEN NaN
    ELSE IF a.t = "inf" THEN (IF a.v > 0 THEN Fin(Scale) ELSE Fin(0))
    ELSE Fin(CdfF(a.v))

\* ------------------------------------------------------------------------
\* Outcomes of a call
\* ------------------------------------------------------------------------
Return(value, ops) == [kind |-> "return", value |-> value, ops |-> ops, exc |-> "none"]

Raise(exc) == [kind |-> "raise", value |-> NaN, ops |-> {}, exc |-> exc]

\* ------------------------------------------------------------------------
\* Black-Scholes call price
\* ------------------------------------------------------------------------
\* the operations whose result is undefined at volatility*sqrt(T) = 0 or T < 0
PricingOps == {"log", "sqrt", "div", "cdf", "exp"}

\* black_scholes_call_price with the expiry test written as T < 0: at T = 0 it goes on
\* to d1 and d2
black_scholes_call_price_strict(spot, strike, time_to_maturity, rate, volatility, dividend, isNp) ==
    IF time_to_maturity < 0 THEN Return(Fin(Max(spot - strike, 0)), {})
    ELSE IF ~isNp /\ strike = 0 THEN Raise("ZeroDivisionError")
    ELSE
    LET T     == Fin(time_to_maturity)
        den   == FMul(Fin(volatility), FSqrt(T))
        carry == Fin(rate - dividend + RoundDiv(Mul(volatility, volatility), 2))
        d1    == FDiv(FAdd(FLog(FDiv(Fin(spot), Fin(strike))), FMul(carry, T)), den)
        d2    == FSub(d1, den)
    IN  Return(FSub(FMul(FMul(Fin(spot), FExp(FMul(Fin(-dividend), T))), FCdf(d1)),
                    FMul(FMul(Fin(strike), FExp(FMul(Fin(-rate), T))), FCdf(d2))),
               PricingOps)

\* src/simulation.py: black_scholes_call_price.  isNp: spot or strike is a numpy
\* float64 (then spot / strike does not raise at strike = 0).
black_scholes_call_price(spot, strike, time_to_maturity, rate, volatility, dividend, isNp) ==
    IF time_to_maturity <= 0 THEN Return(Fin(Max(spot - strike, 0)), {})
    ELSE IF ~isNp /\ strike = 0 THEN Raise("ZeroDivisionError")
    ELSE
    LET T     == Fin(time_to_maturity)
        sqrtT == FSqrt(T)
        den   == FMul(Fin(volatility), sqrtT)
        carry == Fin(rate - dividend + RoundDiv(Mul(volatility, volatility), 2))
        num   == FAdd(FLog(FDiv(Fin(spot), Fin(strike))), FMul(carry, T))
        d1    == FDiv(num, den)
        d2    == FSub(d1, den)
        call_price ==
            FSub(FMul(FMul(Fin(spot), FExp(FMul(Fin(-dividend), T))), FCdf(d1)),
                 FMul(FMul(Fin(strike), FExp(FMul(Fin(-rate), T))), FCdf(d2)))
    IN  Return(call_price, PricingOps)

\* src/simulation2.py: black_scholes_call
black_scholes_call(s, k, T, r, sigma, isNp) ==
    IF T <= 0 THEN Return(Fin(Max(s - k, 0)), {})
    ELSE IF ~isNp /\ k = 0 THEN Raise("ZeroDivisionError")
    ELSE
    LET Tf    == Fin(T)
        den   == FMul(Fin(sigma), FSqrt(Tf))
        carry == Fin(r + RoundDiv(Mul(sigma, sigma), 2))
        d1    == FDiv(FAdd(FLog(FDiv(Fin(s), Fin(k))), FMul(carry, Tf)), den)
        d2    == FSub(d1, den)
        call_price ==
            FSub(FMul(Fin(s), FCdf(d1)),
                 FMul(FMul(Fin(k), FExp(FMul(Fin(-r), Tf))), FCdf(d2)))
    IN  Return(call_price, PricingOps)

\* ------------------------------------------------------------------------
\* State
\* ------------------------------------------------------------------------
VARIABLES
    rng,      \* the process-wide generator of numpy.random: [key, pos]
    stream,   \* which output function the generator has (fixed, unknown)
    call,     \* the last call: its function, arguments and outcome
    prev      \* the call before it, when that simulated a path with the same function
              \* and the same arguments

vars == <<rng, stream, call, prev>>

\* ------------------------------------------------------------------------
\* numpy.random: the global Mersenne Twister
\* ------------------------------------------------------------------------
\* The generator's state is the key it was seeded with and the number of draws
\* taken since: its output is a function of both.
Seeded(key) == [key |-> key, pos |-> 0]

Advance(g, n) == [key |-> g.key, pos |-> g.pos + n]

\* keys 0..MaxSeed are np.random.seed(k); the others are OS entropy
EntropyKeys == (MaxSeed + 1)..(MaxSeed + NumEntropy)

\* The generator's output function is not modelled bit by bit: it is one of these,
\* fixed for the whole run.
Streams == {0, 1}

Raw(g) == ((g.key + 1) * 7919 + (g.pos + 1) * 104729 + stream * 1299709) % 65521

\* a standard normal variate: one of -1.0, -0.5, 0.0, 0.5, 1.0
StdNormal(g) == ((Raw(g) % 5) - 2) * (Scale \div 2)

\* np.random.normal with the scale left out: loc + z
Normal_unscaled(loc, scale, g) == loc + StdNormal(g)

\* np.random.normal(loc, scale): loc + scale * z
Normal(loc, scale, g) == loc + Mul(scale, StdNormal(g))

\* np.random.randint(low, high), low < high
RandInt(low, high, g) == low + (Raw(g) % (high - low))

\* ------------------------------------------------------------------------
\* Path simulation
\* ------------------------------------------------------------------------
ReturnPath(path) == [kind |-> "return", path |-> path, exc |-> "none"]

RaisePath(exc) == [kind |-> "raise", path |-> <<>>, exc |-> exc]

\* (mu - 0.5 * sigma**2) * dt
DriftTerm(mu, sigma, dt) == Mul(mu - RoundDiv(Mul(sigma, sigma), 2), dt)

\* sigma * np.sqrt(dt)
DiffusionTerm(sigma, dt) == Mul(sigma, SqrtF(dt))

\* np.cumsum(returns)[hi - 1] - np.cumsum(returns)[lo - 2]: the draws lo..hi after g0
RECURSIVE SumReturns(_, _, _, _, _)
SumReturns(loc, scale, g0, lo, hi) ==
    IF lo > hi THEN 0
    ELSE IF lo = hi THEN Normal(loc, scale, Advance(g0, lo - 1))
    ELSE LET mid == (lo + hi) \div 2
         IN  SumReturns(loc, scale, g0, lo, mid) + SumReturns(loc, scale, g0, mid + 1, hi)

\* prices[i - 1] of simulate_stock_data: np.exp(np.log(s0) + np.cumsum(returns))
StockPrice(s0, mu, sigma, dt, g0, i) ==
    ExpF(LnF(s0) + SumReturns(DriftTerm(mu, sigma, dt), DiffusionTerm(sigma, dt), g0, 1, i))

\* src/simulation.py: simulate_stock_data.  e: the entropy np.random.seed() reads.
simulate_stock_data(s0, mu, sigma, trading_years, trading_days, seed, e) ==
    LET g0 == Seeded(e)
        n  == trading_years * trading_days
    IN  IF trading_days = 0 THEN [out |-> RaisePath("ZeroDivisionError"), rng |-> g0]
        ELSE IF n < 0 THEN [out |-> RaisePath("ValueError"), rng |-> g0]
        ELSE [out |-> ReturnPath([i \in 1..n |->
                         StockPrice(s0, mu, sigma, RoundDiv(Scale, trading_days), g0, i)]),
              rng |-> Advance(g0, n)]

\* the loop of simulate_gbm; loc and scale are the shock's mean and deviation, the
\* same at every step
RECURSIVE GbmLoop(_, _, _, _, _)
GbmLoop(prices, loc, scale, g, left) ==
    IF left <= 0 \/ Len(prices) = 0 THEN [prices |-> prices, rng |-> g]
    ELSE LET shock == Normal(loc, scale, g)
         IN  GbmLoop(Append(prices, Mul(prices[Len(prices)], ExpF(shock))),
                     loc, scale, Advance(g, 1), left - 1)

\* simulate_gbm with the loop one step short: range(steps - 1)
simulate_gbm_short(s0, mu, sigma, T, steps, seed, g) ==
    LET g0 == IF seed # << >> THEN Seeded(seed[1]) ELSE g
    IN  IF steps = 0 THEN [out |-> RaisePath("ZeroDivisionError"), rng |-> g0]
        ELSE LET dt == Div(T, steps * Scale)
                 r  == GbmLoop(<<s0>>, DriftTerm(mu, sigma, dt), DiffusionTerm(sigma, dt),
                               g0, steps - 1)
             IN  [out |-> ReturnPath(r.prices), rng |-> r.rng]

\* src/simulation2.py: simulate_gbm.  seed: << >> is None, <<k>> is k.
simulate_gbm(s0, mu, sigma, T, steps, seed, g) ==
    LET g0 == IF seed # << >> THEN Seeded(seed[1]) ELSE g
    IN  IF steps = 0 THEN [out |-> RaisePath("ZeroDivisionError"), rng |-> g0]
        ELSE LET dt == Div(T, steps * Scale)
                 r  == GbmLoop(<<s0>>, DriftTerm(mu, sigma, dt), DiffusionTerm(sigma, dt),
                               g0, steps)
             IN  [out |-> ReturnPath(r.prices), rng |-> r.rng]

\* ------------------------------------------------------------------------
\* Program constants
\* ------------------------------------------------------------------------
\* num/den as a fixed-point number
Frac(num, den) == RoundDiv(num * Scale, den)

\* simulate_stock_data's defaults, as the scenario calls it
DefaultS0 == 100
DefaultYears == 5
DefaultDays == 252
DefaultSeed == 42
\* np.random.randint(30, len(stock_prices))
WarmUp == 30
\* (len(stock_prices) - random_index) / 252
DaysPerYear == 252
\* the step slider of main: st.slider("Number of Steps", 50, 1000, 252, 10)
StepsMin == 50
StepsStep == 10

\* ------------------------------------------------------------------------
\* src/simulation.py: the module-level scenario (lines 31-58)
\* ------------------------------------------------------------------------
PricingScenario(e) ==
    LET sim  == simulate_stock_data(DefaultS0 * Scale, Frac(1, 10), Frac(2, 10),
                                    DefaultYears, DefaultDays, <<DefaultSeed>>, e)
        stock_prices == sim.out.path
        len  == DefaultYears * DefaultDays
        g1   == Seeded(0)
        random_index == RandInt(WarmUp, len, g1)
        spot_price   == stock_prices[random_index + 1]
        strike_price == Mul(spot_price, Frac(105, 100))
        time_to_expiry == RoundDiv((len - random_index) * Scale, DaysPerYear)
        option_price_at_purchase ==
            black_scholes_call_price(spot_price, strike_price, time_to_expiry,
                                     Frac(3, 100), Frac(2, 10), 0, TRUE).value
        spot_at_expiry  == stock_prices[len]
        intrinsic_value == Max(spot_at_expiry - strike_price, 0)
    IN  [out |-> [kind |-> "return", exc |-> "none",
                  len |-> len,
                  random_index |-> random_index,
                  spot_price |-> spot_price,
                  strike_price |-> strike_price,
                  time_to_expiry |-> time_to_expiry,
                  option_price_at_purchase |-> option_price_at_purchase,
                  spot_at_expiry |-> spot_at_expiry,
                  intrinsic_value |-> intrinsic_value,
                  profit |-> FSub(Fin(intrinsic_value), option_price_at_purchase)],
         rng |-> Advance(g1, 1)]

\* ------------------------------------------------------------------------
\* src/simulation2.py: main
\* ------------------------------------------------------------------------
\* np.linspace(start, stop, num, endpoint=False): the last point stays short of stop
Linspace_open(start, stop, num) ==
    [i \in 1..num |-> start + RoundDiv((i - 1) * (stop - start), Max(num, 1))]

\* np.linspace(start, stop, num): start + i*step, the last point set to stop
Linspace(start, stop, num) ==
    [i \in 1..num |->
        IF i = num /\ num > 1 THEN stop
        ELSE start + RoundDiv((i - 1) * (stop - start), Max(num - 1, 1))]

Min(a, b) == IF a <= b THEN a ELSE b

\* [black_scholes_call(S, K, T - t, r, sigma) for S, t in zip(prices, times)]: each
\* quote with the time to maturity it was priced at.  prices[0] is the Python float
\* s0, the later prices are numpy float64.
Quotes(prices, times, K, T, r, sigma) ==
    [i \in 1..Min(Len(prices), Len(times)) |->
        [maturity |-> T - times[i],
         price |-> black_scholes_call(prices[i], K, T - times[i], r, sigma, i > 1).value]]

\* the body of main after the simulation
Report(prices, K, T, steps, r, sigma) ==
    [kind |-> "return", exc |-> "none",
     path |-> prices,
     quotes |-> Quotes(prices, Linspace(0, T, steps + 1), K, T, r, sigma),
     intrinsic |-> Max(prices[Len(prices)] - K, 0)]

\* seed: the number in the "Random Seed (optional)" field
main(s0, mu, sigma, T, steps, r, K, seed, g) ==
    LET actual_seed == IF seed = 0 THEN << >> ELSE <<seed>>
        sim == simulate_gbm(s0, mu, sigma, T, steps, actual_seed, g)
    IN  [out |-> Report(sim.out.path, K, T, steps, r, sigma), rng |-> sim.rng]

\* ------------------------------------------------------------------------
\* Inputs
\* ------------------------------------------------------------------------
NoCall == [fn |-> "none", args |-> [none |-> TRUE], out |-> [kind |-> "none", exc |-> "none"]]

Spots == {-100 * Scale, 0, 100 * Scale}

Strikes == {0, 95 * Scale}

Maturities == {-Scale, 0, Scale}

Rates == {Frac(5, 100)}

Volatilities == {0, Frac(2, 10)}

Dividends == {0, Frac(2, 100)}

\* (mu, sigma): flat, deterministic drift, random
Dynamics == {<<0, 0>>, <<Frac(1, 10), 0>>, <<Frac(1, 10), Frac(2, 10)>>}

InitialPrices == {100 * Scale}

Horizons == {Scale}

GbmSeeds == {<< >>} \cup {<<k>> : k \in 0..MaxSeed}

StockSeeds == {<<DefaultSeed>>}

UiSteps == {StepsMin, StepsMin + StepsStep}

UiStrikes == {105 * Scale}

UiHorizons == {Scale}

UiVolatilities == {Frac(2, 10)}

UiRates == {Frac(3, 100)}

UiDrifts == {Frac(1, 10)}

\* the call before this one, when it was the same simulation with the same arguments
Remember(fn, args) == IF call.fn = fn /\ call.args = args THEN call ELSE NoCall

\* ------------------------------------------------------------------------
\* Actions
\* ------------------------------------------------------------------------
Init ==
    /\ rng \in {Seeded(e) : e \in EntropyKeys}
    /\ stream \in Streams
    /\ call = NoCall
    /\ prev = NoCall

BlackScholesCallPrice ==
    \E spot \in Spots, strike \in Strikes, T \in Maturities, rate \in Rates,
       vol \in Volatilities, q \in Dividends, isNp \in BOOLEAN :
        LET args == [spot |-> spot, strike |-> strike, time_to_maturity |-> T,
                     rate |-> rate, volatility |-> vol, dividend |-> q, isNp |-> isNp]
        IN  /\ call' = [fn |-> "black_scholes_call_price", args |-> args,
                        out |-> black_scholes_call_price(spot, strike, T, rate, vol, q, isNp)]
            /\ prev' = NoCall
            /\ UNCHANGED <<rng, stream>>

BlackScholesCall ==
    \E s \in Spots, k \in Strikes, T \in Maturities, r \in Rates,
       sigma \in Volatilities, isNp \in BOOLEAN :
        LET args == [spot |-> s, strike |-> k, time_to_maturity |-> T, rate |-> r,
                     volatility |-> sigma, dividend |-> 0, isNp |-> isNp]
        IN  /\ call' = [fn |-> "black_scholes_call", args |-> args,
                        out |-> black_scholes_call(s, k, T, r, sigma, isNp)]
            /\ prev' = NoCall
            /\ UNCHANGED <<rng, stream>>

SimulateStockData ==
    \E s0 \in InitialPrices, d \in Dynamics, years \in (-1)..MaxYears,
       days \in 0..MaxDays, seed \in StockSeeds, e \in EntropyKeys :
        LET args == [s0 |-> s0, mu |-> d[1], sigma |-> d[2], step_count |-> years * days,
                     trading_years |-> years, trading_days |-> days, seed |-> seed]
            res  == simulate_stock_data(s0, d[1], d[2], years, days, seed, e)
        IN  /\ call' = [fn |-> "simulate_stock_data", args |-> args, out |-> res.out]
            /\ rng' = res.rng
            /\ prev' = Remember("simulate_stock_data", args)
            /\ UNCHANGED stream

SimulateGbm ==
    \E s0 \in InitialPrices, d \in Dynamics, T \in Horizons,
       steps \in (-1)..MaxSteps, seed \in GbmSeeds :
        LET args == [s0 |-> s0, mu |-> d[1], sigma |-> d[2], step_count |-> steps,
                     T |-> T, seed |-> seed]
            res  == simulate_gbm(s0, d[1], d[2], T, steps, seed, rng)
        IN  /\ seed = << >> => rng.pos + steps <= MaxPos
            /\ call' = [fn |-> "simulate_gbm", args |-> args, out |-> res.out]
            /\ rng' = res.rng
            /\ prev' = Remember("simulate_gbm", args)
            /\ UNCHANGED stream

Scenario ==
    \E e \in EntropyKeys :
        LET res == PricingScenario(e)
        IN  /\ call' = [fn |-> "scenario", args |-> [none |-> FALSE], out |-> res.out]
            /\ rng' = res.rng
            /\ prev' = Remember("scenario", [none |-> FALSE])
            /\ UNCHANGED stream

Main ==
    \E s0 \in InitialPrices, mu \in UiDrifts, sigma \in UiVolatilities,
       T \in UiHorizons, steps \in UiSteps, r \in UiRates, K \in UiStrikes,
       seed \in 0..MaxSeed :
        LET args == [s0 |-> s0, mu |-> mu, sigma |-> sigma, step_count |-> steps,
                     T |-> T, r |-> r, K |-> K, seed |-> <<seed>>]
            res  == main(s0, mu, sigma, T, steps, r, K, seed, rng)
        IN  /\ seed = 0 => rng.pos + steps <= MaxUiPos
            /\ call' = [fn |-> "main", args |-> args, out |-> res.out]
            /\ rng' = res.rng
            /\ prev' = Remember("main", args)
            /\ UNCHANGED stream

\* ------------------------------------------------------------------------
\* Specifications
\* ------------------------------------------------------------------------
\* calls of the two pricing functions, in any order
NextPricer == BlackScholesCallPrice \/ BlackScholesCall

SpecPricer == Init /\ [][NextPricer]_vars

\* calls of the two path simulators, in any order
NextSim == SimulateStockData \/ SimulateGbm

SpecSim == Init /\ [][NextSim]_vars

\* runs of the two orchestrations: the scenario script and the UI's main
NextOrch == Scenario \/ Main

SpecOrch == Init /\ [][NextOrch]_vars

\* ------------------------------------------------------------------------
\* Claims
\* ------------------------------------------------------------------------
PricerFns == {"black_scholes_call_price", "black_scholes_call"}

SimFns == {"simulate_stock_data", "simulate_gbm"}

PathFns == SimFns \cup {"main"}

AllEqual(path, v) == \A i \in 1..Len(path) : path[i] = v

\* C1: a pricing call with time_to_maturity <= 0 returns exactly max(spot - strike, 0),
\* whatever spot and strike, and has evaluated no logarithm, square root, division,
\* exponential or normal cdf on the way.
C1_IntrinsicAtExpiry ==
    (call.fn \in PricerFns /\ call.args.time_to_maturity <= 0) =>
        call.out = Return(Fin(Max(call.args.spot - call.args.strike, 0)), {})

\* an in-the-money call priced after expiry at zero volatility
C1_Witness ==
    /\ call.fn = "black_scholes_call_price"
    /\ call.args.time_to_maturity < 0
    /\ call.args.volatility = 0
    /\ call.args.spot > call.args.strike
    /\ call.out.kind = "return"
    /\ call.out.value = Fin(call.args.spot - call.args.strike)

C3_SeededReproducible ==
    (call.fn \in PathFns /\ prev.fn = call.fn /\ call.args.seed # << >>) =>
        /\ prev.args = call.args
        /\ prev.out = call.out

\* C4: a pricing call with time_to_maturity > 0 and volatility = 0 (spot and strike
\* positive, so that nothing else is wrong with it) fails with InvalidParameter and
\* returns no value.
C4_ZeroVolatilityRejected ==
    (/\ call.fn \in PricerFns
     /\ call.args.time_to_maturity > 0
     /\ call.args.volatility = 0
     /\ call.args.spot > 0
     /\ call.args.strike > 0) =>
        /\ call.out.kind = "raise"
        /\ call.out.exc = "InvalidParameter"

\* C5: a pricing call with spot <= 0, strike <= 0 or time_to_maturity < 0 fails with
\* an error and returns no value.
C5_InvalidInputsRejected ==
    (/\ call.fn \in PricerFns
     /\ \/ call.args.spot <= 0
        \/ call.args.strike <= 0
        \/ call.args.time_to_maturity < 0) =>
        call.out.kind = "raise"

\* C6: a simulator call with step_count < 1 fails with InvalidParameter: it returns no
\* path and raises no other error.
C6_StepCountRejected ==
    (call.fn \in SimFns /\ call.args.step_count < 1) =>
        /\ call.out.kind = "raise"
        /\ call.out.exc = "InvalidParameter"

\* C7: a simulator call leaves the process-wide generator as it found it.
C7_GlobalGeneratorUntouched ==
    [][call'.fn \in SimFns => rng' = rng]_vars

\* C8 as claimed: with volatility = 0 and drift = 0 every point of the path equals
\* initial_price exactly, for both simulators.
C8_Original ==
    (/\ call.fn \in SimFns
     /\ call.out.kind = "return"
     /\ call.args.sigma = 0
     /\ call.args.mu = 0) =>
        AllEqual(call.out.path, call.args.s0)

\* the shock's mean of the call: (mu - 0.5*sigma^2) * dt
C8_Mean ==
    DriftTerm(call.args.mu, call.args.sigma,
              IF call.fn = "simulate_gbm"
              THEN Div(call.args.T, call.args.step_count * Scale)
              ELSE RoundDiv(Scale, call.args.trading_days))

\* C8 amended: with volatility = 0 every shock equals its mean, whatever the seed and
\* the generator's state: simulate_gbm's path starts at initial_price and each point
\* is the one before times exp(mean), simulate_stock_data's i-th point is
\* exp(log(initial_price) + i*mean).  With drift = 0 as well simulate_gbm's path
\* equals initial_price at every point, and simulate_stock_data's path is flat at
\* exp(log(initial_price)), which is initial_price only up to rounding.
C8_ZeroVolatilityDeterministic ==
    (/\ call.fn \in SimFns
     /\ call.out.kind = "return"
     /\ call.args.step_count >= 1
     /\ call.args.sigma = 0) =>
        LET path == call.out.path
        IN  /\ call.fn = "simulate_gbm" =>
                  /\ path[1] = call.args.s0
                  /\ \A i \in 1..(Len(path) - 1) : path[i + 1] = Mul(path[i], ExpF(C8_Mean))
                  /\ call.args.mu = 0 => AllEqual(path, call.args.s0)
            /\ call.fn = "simulate_stock_data" =>
                  /\ \A i \in 1..Len(path) : path[i] = ExpF(LnF(call.args.s0) + i * C8_Mean)
                  /\ call.args.mu = 0 => AllEqual(path, ExpF(LnF(call.args.s0)))

\* a flat path of simulate_stock_data of two points, off initial_price by rounding
C8_Witness ==
    /\ call.fn = "simulate_stock_data"
    /\ call.out.kind = "return"
    /\ call.args.sigma = 0
    /\ call.args.mu = 0
    /\ Len(call.out.path) = 2
    /\ call.out.path[1] = call.out.path[2]
    /\ call.out.path[1] # call.args.s0

\* C9: in the scenario the time to maturity passed to the pricer is the number of
\* path steps from the evaluation point to the path's last point times 1/252, and
\* the strike is 1.05 times the spot at the evaluation point.
C9_MaturityIsRemainingSteps ==
    call.fn = "scenario" =>
        /\ call.out.time_to_expiry =
               RoundDiv(((call.out.len - 1) - call.out.random_index) * Scale, DaysPerYear)
        /\ call.out.strike_price = Mul(call.out.spot_price, Frac(105, 100))

\* C10: main prices every path point in time order at time to maturity T - t_i, which
\* is >= 0, non-increasing and 0 at the last point; the last option price is the
\* intrinsic value max(prices[last] - K, 0), and the i-th price is that of the i-th
\* path point.
C10_BatchPricing ==
    call.fn = "main" =>
        LET path   == call.out.path
            quotes == call.out.quotes
            n      == Len(path)
            a      == call.args
        IN  /\ n = a.step_count + 1
            /\ Len(quotes) = n
            /\ \A i \in 1..n : quotes[i].maturity >= 0
            /\ \A i \in 1..(n - 1) : quotes[i + 1].maturity <= quotes[i].maturity
            /\ quotes[1].maturity = a.T
            /\ quotes[n].maturity = 0
            /\ quotes[n].price = Fin(Max(path[n] - a.K, 0))
            /\ quotes[n].price = Fin(call.out.intrinsic)
            /\ \A i \in 1..n :
                  quotes[i].price =
                      black_scholes_call(path[i], a.K, quotes[i].maturity, a.r, a.sigma,
                                         TRUE).value

\* a run of main that ends in the money, priced above zero at the start
C10_Witness ==
    /\ call.fn = "main"
    /\ call.out.intrinsic > 0
    /\ call.out.quotes[Len(call.out.quotes)].price = Fin(call.out.intrinsic)
    /\ call.out.quotes[1].price.t = "fin"
    /\ call.out.quotes[1].price.v > 0

====
